---- MODULE Spec2Model ----
(***************************************************************************)
(* pmxlock: cluster locks built from a local advisory file lock (FLock)    *)
(* and a shared-store directory lock (PMXLock / PMXLockShort), composed by *)
(* LocksChain into ClusterLock, plus the garbage-collector sweep.          *)
(*                                                                         *)
(* Callers are OS processes.  Every system call (open, flock, utime,       *)
(* mkdir, rmdir, close) is one atomic step of its process; the steps of    *)
(* different processes interleave freely.                                  *)
(***************************************************************************)
EXTENDS Integers, Sequences, FiniteSets, TLC

\* ---------------------------------------------------------------- bounds
MaxTimeout == 2
ChainLen == 3

\* ------------------------------------------------------------ the world
Nodes == {"n1", "n2"}
Principals == {"u1", "u2"}
NoProc == "nobody"
NoName == "none"

\* the lock classes a caller may instantiate
Kinds == {"cluster", "flock", "pmx", "short"}

\* timeout arguments a caller passes: -1 (no deadline), 0, 1 .. MaxTimeout
Timeouts == (-1) .. MaxTimeout

VARIABLES
    node,       \* node[p]: the cluster node process p runs on
    principal,  \* principal[p]: the identity the store checks p's writes against
    kind,       \* kind[p]: the lock class of p's lock object
    dirs,       \* dirs[n]: the shared-store entry of lock name n
    flk,        \* flk[<<h, n>>]: the process holding the OS advisory lock of n on node h
    files,      \* files[h]: the lock files present in the local lock directory of node h
    pc,         \* pc[p]: where process p is
    call,       \* call[p]: the call p is running (or ran last)
    lockedfd,   \* lockedfd[p]: FLock.locked_fd, the name whose descriptor is tracked
    has,        \* has[p]: p has a successful acquire it has not released (ghost)
    ret,        \* ret[p]: how p's last call ended
    stray,      \* stray[p]: p has an open descriptor that locked_fd does not track
    todo,       \* todo[p]: names a running sweep of p still has to visit
    ch,         \* the call running on a LocksChain of ChainLen arbitrary sub-locks
    sub         \* sub[i]: sub-lock i of that chain, as its caller sees it

vars == <<node, principal, kind, dirs, flk, files, pc, call, lockedfd, has, ret,
          stray, todo, ch, sub>>

\* the lock names in use: the entries the shared store can hold
Names == DOMAIN dirs

\* the caller processes of a run, among the processes there can be
AllProcs == {"A", "B", "H"}
Procs == DOMAIN pc

\* --------------------------------------------------------- shared store
NoDir == [exists |-> FALSE, mtime |-> 0, owner |-> "none"]

\* os.utime / os.rmdir raise FileNotFoundError when the entry is missing
DirExists(n) == dirs[n].exists

\* os.utime raises PermissionError unless the caller is the entry's principal
CanWrite(p, n) == dirs[n].owner = principal[p]

\* time() is always after the epoch origin: 0 is the origin, 1 a time() stamp
Stamp == 1
Origin == 0

\* a store whose utime never raises
UtimeNeverRaises(p, n) == TRUE

\* a store whose utime always raises
UtimeAlwaysRaises(p, n) == FALSE

\* os.utime(path, (0, t)); TRUE when the call returns without raising
UtimeOk(p, n) == DirExists(n) /\ CanWrite(p, n)
Utime(p, n, t) == [dirs EXCEPT ![n].mtime = t]

\* PMXLock.mklock: os.mkdir; FileExistsError / PermissionError give False
MklockOk(p, n) == ~DirExists(n)
Mkdir(p, n) == [dirs EXCEPT ![n] = [exists |-> TRUE, mtime |-> Stamp, owner |-> principal[p]]]

\* os.rmdir
Rmdir(n) == [dirs EXCEPT ![n] = NoDir]

\* ------------------------------------------------------- LockBase.acquire
\* a dispatch that looks at blocking only
DispatchZeroWaits(blocking, timeout) ==
    IF ~blocking THEN "nonblocking"
    ELSE IF timeout > 0 THEN "timeout"
    ELSE "blocking"

\* the branch LockBase.acquire takes: timeout == 0 forces non-blocking
Dispatch(blocking, timeout) ==
    IF timeout = 0 \/ ~blocking THEN "nonblocking"
    ELSE IF timeout > 0 THEN "timeout"
    ELSE "blocking"

\* a chain that hands every sub-lock the whole timeout, whatever has elapsed
RemainingFullBudget(timeout, el) == timeout

\* a budget that is not clamped at zero
RemainingUnclamped(timeout, el) == IF timeout <= 0 THEN timeout ELSE timeout - el

\* LocksChain.timeouts: the value handed to a sub-lock, el time units after start
Remaining(timeout, el) ==
    IF timeout <= 0 THEN timeout
    ELSE IF timeout - el < 0 THEN 0 ELSE timeout - el

\* acquire_timeout gives up once time() - start > timeout
TimedOut(now, start, timeout) == now - start > timeout

\* the sub-locks of a lock object, in acquisition order
HasFlock(k) == k \in {"cluster", "flock"}
HasDir(k) == k \in {"cluster", "pmx", "short"}
HasShortcut(k) == k \in {"cluster", "short"}

IdleCall == [op |-> "none", name |-> NoName, blocking |-> FALSE, timeout |-> 0,
             el |-> 0, start |-> 0, rem |-> 0]

\* what the chain hands to the stage that starts now, and when that stage started
Stage(c) == [c EXCEPT !.rem = Remaining(c.timeout, c.el), !.start = c.el]

\* sleep(1); only a call with a deadline ever reads the clock
Sleep(c) == [c EXCEPT !.el = IF c.timeout > 0 THEN c.el + 1 ELSE c.el]

\* a polling loop that gives up after the first failed attempt
AfterFailureGivesUp(c) == "fail"

\* LockBase.acquire_timeout / acquire_blocking / acquire_nonblocking after a
\* failed attempt: "retry" (after sleep(1)) or "fail" (return False)
AfterFailure(c) ==
    CASE Dispatch(c.blocking, c.rem) = "nonblocking" -> "fail"
      [] Dispatch(c.blocking, c.rem) = "timeout" ->
            IF TimedOut(c.el, c.start, c.rem) THEN "fail" ELSE "retry"
      [] OTHER -> "retry"

\* a release that starts with the first sub-lock of the chain
FirstReleaseInOrder(k) == IF HasFlock(k) THEN "rel_close" ELSE "rel_dir"

\* the first step of release(): release_locks walks the sub-locks in reverse
FirstRelease(k) == IF HasDir(k) THEN "rel_dir" ELSE "rel_close"

\* ------------------------------------------------------------- outcomes
\* the record of a call that has returned: the lock object stays bound to its
\* name only while the caller holds something of it
Returned(c, bound) == [IdleCall EXCEPT !.name = IF bound THEN c.name ELSE NoName]

\* the acquire of p's lock object returned True
AcquireTrue(p) ==
    IF call[p].op = "acquire"
    THEN /\ pc' = [pc EXCEPT ![p] = "idle"]
         /\ has' = [has EXCEPT ![p] = TRUE]
         /\ ret' = [ret EXCEPT ![p] = "true"]
         /\ call' = [call EXCEPT ![p] = Returned(call[p], TRUE)]
    ELSE \* LockBase.locked and the sweep release at once
         /\ pc' = [pc EXCEPT ![p] = FirstRelease(kind[p])]
         /\ UNCHANGED <<has, ret, call>>

\* a chain that goes on to the shared store after a sub-lock returned False
AcquireFalseGoesOn(p, fd) ==
    /\ pc' = [pc EXCEPT ![p] = "hint"]
    /\ UNCHANGED <<has, ret, call>>

\* the acquire of p's lock object returned False; fd is what locked_fd is then
AcquireFalse(p, fd) ==
    /\ has' = has
    /\ IF call[p].op = "gc"
       THEN /\ pc' = [pc EXCEPT ![p] = "gc_loop"]
            /\ UNCHANGED <<ret, call>>
       ELSE /\ pc' = [pc EXCEPT ![p] = "idle"]
            /\ ret' = [ret EXCEPT ![p] = IF call[p].op = "acquire" THEN "false" ELSE "locked"]
            /\ call' = [call EXCEPT ![p] = Returned(call[p], has[p] \/ fd # NoName)]

\* ---------------------------------------------------------- acquisition
\* ClusterLock(n).acquire(blocking, timeout) up to the first system call:
\* LocksChain.acquire starts the budget, FLock.acquire opens the lock file
Enter(p, op, n, blocking, timeout) ==
    /\ call' = [call EXCEPT ![p] = [op |-> op, name |-> n, blocking |-> blocking,
                                    timeout |-> timeout, el |-> 0, start |-> 0,
                                    rem |-> Remaining(timeout, 0)]]
    /\ IF HasFlock(kind[p])
       THEN /\ files' = [files EXCEPT ![node[p]] = @ \cup {n}]
            /\ pc' = [pc EXCEPT ![p] = "flock"]
       ELSE /\ files' = files
            /\ pc' = [pc EXCEPT ![p] = IF HasShortcut(kind[p]) THEN "update" ELSE "hint"]

\* the lock object of p is bound to one name while p holds anything of it
MayUse(p, n) == (has[p] \/ lockedfd[p] # NoName) => n = call[p].name

AcquireCall(p) ==
    /\ p \in Procs
    /\ pc[p] = "idle"
    /\ \E n \in Names, blocking \in BOOLEAN, timeout \in Timeouts :
          /\ MayUse(p, n)
          /\ Enter(p, "acquire", n, blocking, timeout)
    /\ ret' = [ret EXCEPT ![p] = "none"]
    /\ UNCHANGED <<ch, sub, node, principal, kind, dirs, flk, lockedfd, has, stray, todo>>

\* an advisory lock that never reports a conflict
FlockIgnored(p, n) == TRUE

\* FLock.acquire_nonblocking / acquire_blocking: flock(fd, LOCK_EX [| LOCK_NB])
FlockFree(p, n) == flk[<<node[p], n>>] = NoProc

FlockAttempt(p) ==
    /\ p \in Procs
    /\ pc[p] = "flock"
    /\ LET c == call[p]
           n == c.name
       IN IF FlockFree(p, n)
          THEN /\ flk' = [flk EXCEPT ![<<node[p], n>>] = p]
               /\ lockedfd' = [lockedfd EXCEPT ![p] = n]
               /\ IF HasDir(kind[p])
                  THEN /\ call' = [call EXCEPT ![p] = Stage(c)]
                       /\ pc' = [pc EXCEPT ![p] = "update"]
                       /\ UNCHANGED <<has, ret>>
                  ELSE AcquireTrue(p)
               /\ UNCHANGED stray
          ELSE \* busy: LOCK_EX without LOCK_NB waits inside the system call
               /\ ~(Dispatch(c.blocking, c.rem) = "blocking")
               /\ IF AfterFailure(c) = "retry"
                  THEN /\ call' = [call EXCEPT ![p] = Sleep(c)]
                       /\ UNCHANGED <<pc, has, ret, stray>>
                  ELSE \* returns False: self.fd stays open, nothing tracks it
                       /\ stray' = [stray EXCEPT ![p] = TRUE]
                       /\ AcquireFalse(p, lockedfd[p])
               /\ UNCHANGED <<flk, lockedfd>>
    /\ UNCHANGED <<ch, sub, node, principal, kind, dirs, files, todo>>

\* PMXLockShort.acquire: self.update() first
ShortUpdate(p) ==
    /\ p \in Procs
    /\ pc[p] = "update"
    /\ LET n == call[p].name
       IN IF UtimeOk(p, n)
          THEN /\ dirs' = Utime(p, n, Stamp)
               /\ AcquireTrue(p)
          ELSE \* PermissionError, FileNotFoundError: super().acquire
               /\ pc' = [pc EXCEPT ![p] = "hint"]
               /\ UNCHANGED <<dirs, has, ret, call>>
    /\ UNCHANGED <<ch, sub, node, principal, kind, flk, files, lockedfd, stray, todo>>

\* PMXLock.request_unlock: utime(path, (0, 0)), errors swallowed
RequestUnlock(p) ==
    /\ p \in Procs
    /\ pc[p] = "hint"
    /\ LET n == call[p].name
       IN dirs' = IF UtimeOk(p, n) THEN Utime(p, n, Origin) ELSE dirs
    /\ pc' = [pc EXCEPT ![p] = "mkdir"]
    /\ UNCHANGED <<ch, sub, node, principal, kind, flk, files, call, lockedfd, has, ret, stray, todo>>

\* what LocksChain.acquire does when a sub-lock returned False:
\* release_locks(acquired), where a ClusterLock has acquired = [flock]
ChainFalse(p) ==
    IF kind[p] = "cluster"
    THEN /\ pc' = [pc EXCEPT ![p] = "rollback"]
         /\ UNCHANGED <<has, ret, call>>
    ELSE AcquireFalse(p, lockedfd[p])

\* PMXLock.mklock, then the polling loop of LockBase around it
Mklock(p) ==
    /\ p \in Procs
    /\ pc[p] = "mkdir"
    /\ LET c == call[p]
           n == c.name
       IN IF MklockOk(p, n)
          THEN /\ dirs' = Mkdir(p, n)
               /\ AcquireTrue(p)
          ELSE /\ dirs' = dirs
               /\ IF AfterFailure(c) = "retry"
                  THEN /\ call' = [call EXCEPT ![p] = Sleep(c)]
                       /\ pc' = [pc EXCEPT ![p] = "hint"]
                       /\ UNCHANGED <<has, ret>>
                  ELSE ChainFalse(p)
    /\ UNCHANGED <<ch, sub, node, principal, kind, flk, files, lockedfd, stray, todo>>

\* the rollback of LocksChain.acquire: FLock.release closes locked_fd, which
\* drops the advisory lock
Rollback(p) ==
    /\ p \in Procs
    /\ pc[p] = "rollback"
    /\ flk' = [flk EXCEPT ![<<node[p], call[p].name>>] = NoProc]
    /\ lockedfd' = [lockedfd EXCEPT ![p] = NoName]
    /\ AcquireFalse(p, NoName)
    /\ UNCHANGED <<ch, sub, node, principal, kind, dirs, files, stray, todo>>

\* --------------------------------------------------------------- release
\* release() of p's lock object returned
ReleaseDone(p) ==
    IF call[p].op = "gc"
    THEN /\ pc' = [pc EXCEPT ![p] = "gc_loop"]
         /\ UNCHANGED <<has, ret, call>>
    ELSE /\ pc' = [pc EXCEPT ![p] = "idle"]
         /\ has' = has
         /\ ret' = [ret EXCEPT ![p] = IF call[p].op = "release" THEN "released" ELSE "notlocked"]
         /\ call' = [call EXCEPT ![p] = Returned(call[p], has[p])]

\* the caller invokes release() after its own successful acquire; from here on
\* that acquire counts as released
ReleaseCall(p) ==
    /\ p \in Procs
    /\ pc[p] = "idle"
    /\ has[p]
    /\ call' = [call EXCEPT ![p].op = "release"]
    /\ pc' = [pc EXCEPT ![p] = FirstRelease(kind[p])]
    /\ has' = [has EXCEPT ![p] = FALSE]
    /\ ret' = [ret EXCEPT ![p] = "none"]
    /\ UNCHANGED <<ch, sub, node, principal, kind, dirs, flk, files, lockedfd, stray, todo>>

\* the advisory locks a process holds end with the process
ProcessExit(p) == [k \in DOMAIN flk |-> IF flk[k] = p THEN NoProc ELSE flk[k]]

\* PMXLock.release: os.rmdir(self.path); a missing entry raises, and
\* release_locks does not go on to the sub-locks that remain
ReleaseDir(p) ==
    /\ p \in Procs
    /\ pc[p] = "rel_dir"
    /\ LET n == call[p].name
       IN IF DirExists(n)
          THEN /\ dirs' = Rmdir(n)
               /\ IF HasFlock(kind[p])
                  THEN /\ pc' = [pc EXCEPT ![p] = "rel_close"]
                       /\ UNCHANGED <<has, ret, call>>
                  ELSE ReleaseDone(p)
               /\ UNCHANGED <<flk, lockedfd, todo>>
          ELSE /\ dirs' = dirs
               /\ pc' = [pc EXCEPT ![p] = "idle"]
               /\ ret' = [ret EXCEPT ![p] = "raise"]
               /\ has' = has
               /\ IF call[p].op = "gc"
                  THEN \* the sweep ends with the error
                       /\ flk' = ProcessExit(p)
                       /\ lockedfd' = [lockedfd EXCEPT ![p] = NoName]
                       /\ todo' = [todo EXCEPT ![p] = {}]
                       /\ call' = [call EXCEPT ![p] = IdleCall]
                  ELSE /\ call' = [call EXCEPT ![p] =
                                     Returned(call[p], has[p] \/ lockedfd[p] # NoName)]
                       /\ UNCHANGED <<flk, lockedfd, todo>>
    /\ UNCHANGED <<ch, sub, node, principal, kind, files, stray>>

\* FLock.release: os.close(self.locked_fd); self.locked_fd = None
ReleaseClose(p) ==
    /\ p \in Procs
    /\ pc[p] = "rel_close"
    /\ flk' = [flk EXCEPT ![<<node[p], call[p].name>>] = NoProc]
    /\ lockedfd' = [lockedfd EXCEPT ![p] = NoName]
    /\ ReleaseDone(p)
    /\ UNCHANGED <<ch, sub, node, principal, kind, dirs, files, stray, todo>>

\* ---------------------------------------------------------------- update
\* PMXLock.update / ClusterLock.update: os.utime(path, (0, time())), errors raised
UpdateCall(p) ==
    /\ p \in Procs
    /\ pc[p] = "idle"
    /\ HasDir(kind[p])
    /\ \E n \in Names :
          /\ MayUse(p, n)
          /\ call' = [call EXCEPT ![p] = Returned([call[p] EXCEPT !.name = n],
                                                  has[p] \/ lockedfd[p] # NoName)]
          /\ IF UtimeOk(p, n)
             THEN /\ dirs' = Utime(p, n, Stamp)
                  /\ ret' = [ret EXCEPT ![p] = "updated"]
             ELSE \* FileNotFoundError, PermissionError: the caller gets the error
                  /\ dirs' = dirs
                  /\ ret' = [ret EXCEPT ![p] = "update_error"]
    /\ UNCHANGED <<ch, sub, node, principal, kind, flk, files, pc, lockedfd, has, stray, todo>>

\* ---------------------------------------------------------------- locked
\* LockBase.locked: can_lock = self.acquire(blocking=False); release if it did
LockedCall(p) ==
    /\ p \in Procs
    /\ pc[p] = "idle"
    /\ \E n \in Names :
          /\ MayUse(p, n)
          /\ Enter(p, "locked", n, FALSE, -1)
    /\ ret' = [ret EXCEPT ![p] = "none"]
    /\ UNCHANGED <<ch, sub, node, principal, kind, dirs, flk, lockedfd, has, stray, todo>>

\* ------------------------------------------------------------- the sweep
\* cli/gc.py main: for flock in flock_dir.iterdir()
GcStart(p) ==
    /\ p \in Procs
    /\ pc[p] = "idle"
    /\ kind[p] = "cluster"
    /\ ~has[p]
    /\ lockedfd[p] = NoName
    /\ todo' = [todo EXCEPT ![p] = files[node[p]]]
    /\ pc' = [pc EXCEPT ![p] = "gc_loop"]
    /\ call' = [call EXCEPT ![p] = [IdleCall EXCEPT !.op = "gc"]]
    /\ ret' = [ret EXCEPT ![p] = "none"]
    /\ UNCHANGED <<ch, sub, node, principal, kind, dirs, flk, files, lockedfd, has, stray>>

\* the loop body up to the first system call: ClusterLock(flock.name),
\* lock.acquire(blocking=False); return 0 after the last name
GcVisit(p) ==
    /\ p \in Procs
    /\ pc[p] = "gc_loop"
    /\ IF todo[p] = {}
       THEN /\ pc' = [pc EXCEPT ![p] = "idle"]
            /\ ret' = [ret EXCEPT ![p] = "swept"]
            /\ call' = [call EXCEPT ![p] = IdleCall]
            /\ UNCHANGED <<todo, files>>
       ELSE /\ \E n \in todo[p] :
                 /\ todo' = [todo EXCEPT ![p] = @ \ {n}]
                 /\ Enter(p, "gc", n, FALSE, -1)
            /\ ret' = ret
    /\ UNCHANGED <<ch, sub, node, principal, kind, dirs, flk, lockedfd, has, stray>>

\* ------------------------------------------------------- specifications
TypeOK ==
    /\ node \in [Procs -> Nodes]
    /\ principal \in [Procs -> Principals]
    /\ kind \in [Procs -> Kinds]
    /\ \A n \in Names : dirs[n].exists \in BOOLEAN /\ dirs[n].mtime \in {Origin, Stamp}
    /\ \A k \in DOMAIN flk : flk[k] \in Procs \cup {NoProc}
    /\ has \in [Procs -> BOOLEAN]
    /\ stray \in [Procs -> BOOLEAN]
    /\ \A p \in Procs : call[p].el \in 0 .. (MaxTimeout + 1)

\* the chain of arbitrary sub-locks is not in use
IdleChain == [pc |-> "idle", blocking |-> FALSE, timeout |-> 0, el |-> 0, start |-> 0,
              rem |-> 0, i |-> 0, acquired |-> 0, pass |-> 0, j |-> 0, result |-> "none"]
FreshSub == [held |-> FALSE, releases |-> 0]
InitChain ==
    /\ ch = IdleChain
    /\ sub = [i \in 1 .. ChainLen |-> FreshSub]

\* no call is running and nothing has been opened
InitIdle(procs) ==
    /\ InitChain
    /\ pc = [p \in procs |-> "idle"]
    /\ call = [p \in procs |-> IdleCall]
    /\ lockedfd = [p \in procs |-> NoName]
    /\ has = [p \in procs |-> FALSE]
    /\ ret = [p \in procs |-> "none"]
    /\ stray = [p \in procs |-> FALSE]
    /\ todo = [p \in procs |-> {}]

\* no entry exists, no advisory lock is held, no lock file was ever created
InitFree(names) ==
    /\ dirs = [n \in names |-> NoDir]
    /\ flk = [k \in Nodes \X names |-> NoProc]
    /\ files = [h \in Nodes |-> {}]

\* two callers: A runs on n1 as u1, B on either node as either principal
InitPair ==
    /\ node \in {f \in [{"A", "B"} -> Nodes] : f["A"] = "n1"}
    /\ principal \in {f \in [{"A", "B"} -> Principals] : f["A"] = "u1"}
    /\ InitIdle({"A", "B"})

\* every caller uses a ClusterLock of the one name "alpha"
Init ==
    /\ InitPair
    /\ InitFree({"alpha"})
    /\ kind = [p \in {"A", "B"} |-> "cluster"]

Next ==
    \E p \in AllProcs :
        \/ AcquireCall(p)
        \/ FlockAttempt(p)
        \/ ShortUpdate(p)
        \/ RequestUnlock(p)
        \/ Mklock(p)
        \/ Rollback(p)
        \/ ReleaseCall(p)
        \/ ReleaseDir(p)
        \/ ReleaseClose(p)
        \/ UpdateCall(p)
        \/ LockedCall(p)
        \/ GcStart(p)
        \/ GcVisit(p)

Spec == Init /\ [][Next]_vars

\* ------------------------------------------------------------ Scenario A
\* each caller runs ClusterLock("alpha").acquire(blocking=False) once
RaceCall(p) ==
    /\ p \in Procs
    /\ pc[p] = "idle"
    /\ ret[p] = "none"
    /\ Enter(p, "acquire", "alpha", FALSE, -1)
    /\ UNCHANGED <<ch, sub, node, principal, kind, dirs, flk, lockedfd, has, ret, stray, todo>>

NextRace ==
    \E p \in AllProcs :
        \/ RaceCall(p)
        \/ FlockAttempt(p)
        \/ ShortUpdate(p)
        \/ RequestUnlock(p)
        \/ Mklock(p)
        \/ Rollback(p)

SpecRace == Init /\ [][NextRace]_vars

\* ------------------------------------------------------- every lock class
\* both callers use the same lock class, any of the four, on the name "alpha"
InitVariants ==
    /\ InitPair
    /\ InitFree({"alpha"})
    /\ kind \in {[p \in {"A", "B"} |-> k] : k \in Kinds}

SpecVariants == InitVariants /\ [][Next]_vars

\* ------------------------------------------------------------ Scenario E
\* H, a live process on n1, holds "x"; "y" and "z" are entries left behind by
\* processes that are gone; A sweeps on n1, B sweeps on n1 or on n2, and the
\* lock files of the three names exist on both nodes
HeldBy(u) == [exists |-> TRUE, mtime |-> Stamp, owner |-> u]

InitGc ==
    /\ node \in {f \in [AllProcs -> Nodes] : f["H"] = "n1" /\ f["A"] = "n1"}
    /\ principal \in {f \in [AllProcs -> Principals] : f["H"] = "u1"}
    /\ kind = [p \in AllProcs |-> "cluster"]
    /\ \E uy, uz \in Principals :
          dirs = [n \in {"x", "y", "z"} |->
                    CASE n = "x" -> HeldBy("u1") [] n = "y" -> HeldBy(uy) [] OTHER -> HeldBy(uz)]
    /\ flk = [k \in Nodes \X {"x", "y", "z"} |-> IF k = <<"n1", "x">> THEN "H" ELSE NoProc]
    /\ files = [h \in Nodes |-> {"x", "y", "z"}]
    /\ pc = [p \in AllProcs |-> "idle"]
    /\ call = [p \in AllProcs |-> IF p = "H" THEN [IdleCall EXCEPT !.name = "x"] ELSE IdleCall]
    /\ lockedfd = [p \in AllProcs |-> IF p = "H" THEN "x" ELSE NoName]
    /\ has = [p \in AllProcs |-> p = "H"]
    /\ ret = [p \in AllProcs |-> "none"]
    /\ stray = [p \in AllProcs |-> FALSE]
    /\ todo = [p \in AllProcs |-> {}]
    /\ InitChain

NextGc ==
    \E p \in AllProcs :
        \/ GcStart(p)
        \/ GcVisit(p)
        \/ FlockAttempt(p)
        \/ ShortUpdate(p)
        \/ RequestUnlock(p)
        \/ Mklock(p)
        \/ Rollback(p)
        \/ ReleaseDir(p)
        \/ ReleaseClose(p)

SpecGc == InitGc /\ [][NextGc]_vars

\* ------------------------------------------- LocksChain of any sub-locks
\* One caller, a chain of ChainLen sub-locks of any class.  What a sub-lock
\* answers depends on the rest of the world, so every acquire_nonblocking
\* attempt may succeed, find the lock busy, or raise, and every release may
\* return or raise.  Time is counted in polling intervals: sleep(1) is one
\* unit and everything else is instantaneous.
Subs == 1 .. ChainLen

\* release_locks is done with the list: what the caller of release_locks does
\*   pass 0: release() returns; pass 1: acquire returns False;
\*   pass 2: the except clause re-raises
AfterReleaseLocks(c) ==
    [c EXCEPT !.pc = "idle",
              !.result = CASE c.pass = 0 -> "released"
                           [] c.pass = 1 -> "false"
                           [] OTHER -> "raised"]

\* a chain whose release_locks releases nothing
ReleaseLocksForgotten(c, k, pass) == AfterReleaseLocks([c EXCEPT !.pass = pass])

\* release_locks(locks) is called on the first k sub-locks
ReleaseLocks(c, k, pass) ==
    IF k = 0
    THEN AfterReleaseLocks([c EXCEPT !.pass = pass])
    ELSE [c EXCEPT !.pc = "release_locks", !.pass = pass, !.j = k]

\* LocksChain.acquire(blocking, timeout): the budget starts with the first
\* value drawn from timeouts(timeout)
ChainAcquire ==
    /\ ch.pc = "idle"
    /\ \A i \in Subs : ~sub[i].held
    /\ \E blocking \in BOOLEAN, timeout \in Timeouts :
          ch' = [IdleChain EXCEPT !.pc = "attempt", !.blocking = blocking,
                                  !.timeout = timeout, !.rem = Remaining(timeout, 0),
                                  !.i = 1]
    /\ sub' = [i \in Subs |-> FreshSub]
    /\ UNCHANGED <<node, principal, kind, dirs, flk, files, pc, call, lockedfd, has,
                   ret, stray, todo>>

\* one acquire_nonblocking attempt of sub-lock ch.i inside lock.acquire(blocking, timeout)
SubAttempt ==
    /\ ch.pc = "attempt"
    /\ \E outcome \in {"ok", "busy", "raise"} :
          CASE outcome = "ok" ->
                  /\ sub' = [sub EXCEPT ![ch.i].held = TRUE]
                  /\ ch' = IF ch.i = ChainLen
                           THEN [ch EXCEPT !.pc = "idle", !.acquired = ch.i, !.result = "true"]
                           ELSE [ch EXCEPT !.acquired = ch.i, !.i = ch.i + 1,
                                           !.rem = Remaining(ch.timeout, ch.el),
                                           !.start = ch.el]
            [] outcome = "busy" ->
                  /\ sub' = sub
                  /\ ch' = IF AfterFailure(ch) = "retry"
                           THEN Sleep(ch)
                           ELSE ReleaseLocks(ch, ch.acquired, 1)
            [] OTHER ->
                  \* except Exception: release_locks(acquired); raise
                  /\ sub' = sub
                  /\ ch' = ReleaseLocks(ch, ch.acquired, 2)
    /\ UNCHANGED <<node, principal, kind, dirs, flk, files, pc, call, lockedfd, has,
                   ret, stray, todo>>

\* LocksChain.release(): release_locks(self.locks)
ChainRelease ==
    /\ ch.pc = "idle"
    /\ ch.result = "true"
    /\ ch' = ReleaseLocks([ch EXCEPT !.result = "none"], ChainLen, 0)
    /\ sub' = [i \in Subs |-> [sub[i] EXCEPT !.releases = 0]]
    /\ UNCHANGED <<node, principal, kind, dirs, flk, files, pc, call, lockedfd, has,
                   ret, stray, todo>>

\* a release raised inside release_locks: the loop is left at once.  Inside the
\* try block of acquire the except clause then runs release_locks(acquired)
\* again from the end of the list; anywhere else the error leaves the call
ReleaseRaised(c) ==
    IF c.pass = 1
    THEN ReleaseLocks(c, c.acquired, 2)
    ELSE [c EXCEPT !.pc = "idle", !.result = "release_error"]

\* release_locks: for lock in reversed(locks): lock.release(), one sub-lock
\* per step
ReleaseLocksStep ==
    /\ ch.pc = "release_locks"
    /\ \E outcome \in {"ok", "raise"} :
          IF outcome = "ok"
          THEN /\ sub' = [sub EXCEPT ![ch.j] = [held |-> FALSE, releases |-> @.releases + 1]]
               /\ ch' = IF ch.j = 1 THEN AfterReleaseLocks(ch) ELSE [ch EXCEPT !.j = ch.j - 1]
          ELSE /\ sub' = [sub EXCEPT ![ch.j].releases = @ + 1]
               /\ ch' = ReleaseRaised(ch)
    /\ UNCHANGED <<node, principal, kind, dirs, flk, files, pc, call, lockedfd, has,
                   ret, stray, todo>>

InitChainOnly ==
    /\ InitChain
    /\ node = << >> /\ principal = << >> /\ kind = << >>
    /\ dirs = << >> /\ flk = << >> /\ files = [h \in Nodes |-> {}]
    /\ pc = << >> /\ call = << >> /\ lockedfd = << >> /\ has = << >>
    /\ ret = << >> /\ stray = << >> /\ todo = << >>

NextChain ==
    \/ ChainAcquire
    \/ SubAttempt
    \/ ChainRelease
    \/ ReleaseLocksStep

SpecChain == InitChainOnly /\ [][NextChain]_vars

\* ------------------------------------------------------- the with scope
\* LockBase.__enter__: self.acquire(), that is blocking=True, timeout=-1; the
\* result is not looked at
ScopeEnter(p) ==
    /\ p \in Procs
    /\ pc[p] = "idle"
    /\ ~has[p]
    /\ lockedfd[p] = NoName
    /\ Enter(p, "acquire", "alpha", TRUE, -1)
    /\ ret' = [ret EXCEPT ![p] = "none"]
    /\ UNCHANGED <<ch, sub, node, principal, kind, dirs, flk, lockedfd, has, stray, todo>>

\* LockBase.__exit__: self.release(), whether the body completed or raised;
\* the body is the time between the two
ScopeExit(p) == ReleaseCall(p)

NextScope ==
    \E p \in AllProcs :
        \/ ScopeEnter(p)
        \/ FlockAttempt(p)
        \/ ShortUpdate(p)
        \/ RequestUnlock(p)
        \/ Mklock(p)
        \/ ScopeExit(p)
        \/ ReleaseDir(p)
        \/ ReleaseClose(p)

\* both callers use the same lock class, any of the four, only in with scopes
SpecScope == InitVariants /\ [][NextScope]_vars

\* ------------------------------------------------ the chain, both views
\* LocksChain seen as a chain of arbitrary sub-locks, and seen as the
\* ClusterLock it is instantiated to: a run is a run of one or of the other
InitOrder == InitChainOnly \/ Init

NextOrder ==
    \/ Procs = {} /\ NextChain
    \/ Next

SpecOrder == InitOrder /\ [][NextOrder]_vars

\* ------------------------------------------------- the waiting caller
\* B calls acquire(blocking=True, timeout=-1) once
WaitCall(p) ==
    /\ p \in Procs
    /\ pc[p] = "idle"
    /\ ret[p] = "none"
    /\ Enter(p, "acquire", "alpha", TRUE, -1)
    /\ UNCHANGED <<ch, sub, node, principal, kind, dirs, flk, lockedfd, has, ret, stray, todo>>

\* the steps inside acquire and release, which a running process goes on taking
Run(p) ==
    \/ FlockAttempt(p)
    \/ ShortUpdate(p)
    \/ RequestUnlock(p)
    \/ Mklock(p)
    \/ Rollback(p)
    \/ ReleaseDir(p)
    \/ ReleaseClose(p)

\* A tries the lock once without blocking and, if it got it, releases it once;
\* B waits for it
NextLive ==
    \/ RaceCall("A")
    \/ ReleaseCall("A")
    \/ WaitCall("B")
    \/ \E p \in AllProcs : Run(p)

\* the holder does release and every process keeps running: sleep(1) returns,
\* a system call that can complete does
SpecLive ==
    /\ InitVariants
    /\ [][NextLive]_vars
    /\ WF_vars(ReleaseCall("A"))
    /\ \A p \in {"A", "B"} : WF_vars(Run(p))

\* ================================================================ claims
\* p has a successful, not yet released acquire of name n
Holds(p, n) == has[p] /\ call[p].name = n

\* C1: cluster-wide mutual exclusion: no two distinct callers both have a
\* successful, not yet released acquire of the same lock name.
C1_MutualExclusion ==
    \A p, q \in Procs, n \in Names : Holds(p, n) /\ Holds(q, n) => p = q

\* C6 (Scenario B): when an acquire(blocking=True, timeout=2) of caller q returns
\* while another caller p holds the name, it returns false, and p's entry
\* still exists and p still holds it.
C6_ScenarioB ==
    [][\A p, q \in Procs :
          (/\ p # q
           /\ has[p] /\ call[p].name = call[q].name /\ DirExists(call[p].name)
           /\ call[q].op = "acquire" /\ call[q].blocking /\ call[q].timeout = 2
           /\ pc[q] # "idle" /\ pc'[q] = "idle")
          => /\ ret'[q] = "false"
             /\ has'[p]
             /\ dirs'[call[p].name].exists]_vars

\* C8: an entry held by one caller is never removed by a step of another
\* caller (the holder's own release starts by giving up the hold).
C8_NeverDeletesHeldEntry ==
    [][\A p \in Procs :
          has[p] /\ DirExists(call[p].name) => dirs'[call[p].name].exists]_vars

\* C5 (Scenario A): once both non-blocking acquires of "alpha" have returned,
\* exactly one returned true and the other false; neither call slept.
C5_ScenarioA ==
    /\ \A p \in Procs : call[p].el = 0
    /\ (\A p \in Procs : ret[p] # "none" /\ pc[p] = "idle")
          => Cardinality({p \in Procs : ret[p] = "true"}) = 1

\* the lock objects of p and q stand for one resource: the same name, in the
\* shared store or on the same node
SameResource(p, q) ==
    /\ call[p].name = call[q].name
    /\ HasDir(kind[p]) \/ node[p] = node[q]

\* C4: locked() preserves who holds what: a step of a locked() call removes
\* no entry that a caller holds and takes no advisory lock away from its
\* holder, and a probe that answers "not locked" leaves the name unheld.
C4_LockedPreserves ==
    [][\A p \in Procs :
          (call[p].op = "locked" /\ pc[p] # "idle" /\ pc'[p] # pc[p])
          => /\ \A q \in Procs :
                  has[q] /\ call[q].name = call[p].name /\ DirExists(call[p].name)
                  => dirs'[call[p].name].exists
             /\ \A q \in Procs \ {p} : \A k \in DOMAIN flk : flk[k] = q => flk'[k] = q
             /\ ret'[p] = "notlocked" => \A q \in Procs : ~(has'[q] /\ SameResource(p, q))]_vars

\* x is exactly as Scenario E starts it: entry, advisory lock and holder
XUntouched ==
    /\ dirs["x"] = HeldBy("u1")
    /\ flk[<<"n1", "x">>] = "H"
    /\ has["H"] /\ lockedfd["H"] = "x"

\* A's sweep has completed and no other sweep has run
SweptAlone == ret["A"] = "swept" /\ pc["A"] = "idle" /\ pc["B"] = "idle" /\ ret["B"] = "none"

\* C9 (Scenario E) as claimed: after the sweep y and z no longer exist and x
\* is as before.
C9_ScenarioE_AsClaimed ==
    SweptAlone => ~DirExists("y") /\ ~DirExists("z") /\ XUntouched

\* C9 amended: after a sweep on x's node, x is as before, and each of y, z that
\* still exists is one whose timestamp the sweeper may not rewrite.
C9_ScenarioE ==
    SweptAlone => /\ XUntouched
                  /\ \A n \in {"y", "z"} : DirExists(n) => ~CanWrite("A", n)

C9_Witness ==
    /\ SweptAlone
    /\ ~DirExists("y") /\ ~DirExists("z")
    /\ XUntouched

\* C10: concurrent and repeated sweeps never end with an error and never remove
\* the entry of the live holder.
C10_ConcurrentSweeps ==
    /\ \A p \in {"A", "B"} : ret[p] # "raise"
    /\ DirExists("x")

\* the sub-locks the running (or last) acquire call has acquired
Acquired == 1 .. ch.acquired

\* C2: when LocksChain.acquire returns false or re-raises, the caller holds
\* none of the chain's sub-locks.
C2_AllOrNothing ==
    ch.result \in {"false", "raised"} => \A i \in Subs : ~sub[i].held

\* Scenario D: L1 was acquired, a later sub-lock returned false, L1 is unheld
C2_Witness ==
    /\ ch.pc = "idle" /\ ch.result = "false"
    /\ ch.acquired >= 1
    /\ \A i \in Acquired : sub[i].releases >= 1 /\ ~sub[i].held

\* the sub-locks a finished release_locks was called on
Concerned == IF ch.result = "released" \/ ch.pass = 0 THEN Subs ELSE Acquired

\* C3: when a chain has finished releasing (rollback or release()), release was
\* invoked on every sub-lock concerned, also when one of the releases raised.
C3_ReleaseAttemptsEveryStage ==
    (ch.pc = "idle" /\ ch.result \in {"released", "false", "raised", "release_error"})
       => \A i \in Concerned : sub[i].releases >= 1

\* C7: a chain acquire with timeout t > 0 never runs longer than t plus one
\* polling interval per sub-lock.
C7_TimeoutBudget ==
    ch.timeout > 0 => ch.el <= ch.timeout + ChainLen

C7_Witness ==
    /\ ch.pc = "idle" /\ ch.result = "false"
    /\ ch.timeout > 0 /\ ch.blocking
    /\ ch.acquired >= 1
    /\ ch.el = ch.timeout + 1

\* p takes a step of its own
Steps(p) == pc'[p] # pc[p] \/ call'[p] # call[p] \/ ret'[p] # ret[p]

\* C11: update() on an entry that is missing or that the caller may not write
\* ends in an error and changes nothing, and returns normally only after it
\* stamped an existing, writable entry; request_unlock raises nothing, goes on
\* to the directory creation, rewrites at most the timestamp of a writable
\* entry, and leaves the outcome of that creation as it was.
C11_HeartbeatSurfacedHintSwallowed ==
    [][\A p \in Procs :
          /\ (pc[p] = "idle" /\ pc'[p] = "idle" /\ ret'[p] # ret[p])
             => \E n \in Names :
                   /\ MayUse(p, n)
                   /\ IF dirs[n].exists /\ dirs[n].owner = principal[p]
                      THEN /\ ret'[p] = "updated"
                           /\ dirs' = [dirs EXCEPT ![n].mtime = Stamp]
                      ELSE /\ ret'[p] = "update_error"
                           /\ dirs' = dirs
          /\ (pc[p] = "hint" /\ pc'[p] # "hint")
             => LET n == call[p].name
                IN /\ pc'[p] = "mkdir"
                   /\ ret'[p] = ret[p] /\ call'[p] = call[p]
                   /\ dirs'[n].exists = dirs[n].exists
                   /\ dirs'[n].owner = dirs[n].owner
                   /\ ~(dirs[n].exists /\ dirs[n].owner = principal[p]) => dirs' = dirs]_vars

\* an update() on the missing entry has ended in an error
C11_Witness ==
    \E p \in Procs : /\ pc[p] = "idle" /\ ret[p] = "update_error"
                     /\ ~DirExists("alpha")

\* C12: an FLock (alone or in a ClusterLock) never has an open descriptor
\* between calls unless it holds the advisory lock through that descriptor.
C12_NoDescriptorLeak ==
    \A p \in Procs :
        pc[p] = "idle" =>
            /\ ~stray[p]
            /\ lockedfd[p] # NoName => flk[<<node[p], lockedfd[p]>>] = p

\* p is inside the body of its with scope
InBody(p) == pc[p] = "idle" /\ has[p]

\* p has left its with scope
LeftScope(p) == pc[p] = "idle" /\ ~has[p] /\ ret[p] # "none"

\* everything p's lock object is made of is in place
HoldsAll(p) ==
    /\ HasFlock(kind[p]) => flk[<<node[p], call[p].name>>] = p
    /\ HasDir(kind[p]) => DirExists(call[p].name)

\* C13: in a with scope of any lock class the lock is in place during the
\* whole body, and after the scope the release has completed and the caller
\* holds nothing of the lock.
C13_ScopedAcquisition ==
    \A p \in Procs :
        /\ InBody(p) => HoldsAll(p)
        /\ LeftScope(p) => /\ ret[p] = "released"
                           /\ lockedfd[p] = NoName
                           /\ \A k \in DOMAIN flk : flk[k] # p

\* C14: sub-lock i is attempted only when the sub-locks before it are held by
\* this call; release is invoked on sub-lock i only when no later sub-lock is
\* still held; a ClusterLock creates the shared-store entry only while it holds
\* the advisory lock, and because the advisory lock is given up only after the
\* entry was removed, an entry exists only while some caller holds an advisory
\* lock of that name.
C14_ChainOrdering ==
    [][/\ ch'.pc = "attempt" => \A k \in 1 .. (ch'.i - 1) : sub'[k].held
       /\ \A i \in Subs :
             sub'[i].releases > sub[i].releases
                => \A k \in Subs : k > i => ~sub[k].held
       /\ \A p \in Procs :
             LET n == call[p].name
             IN (pc[p] = "mkdir" /\ pc'[p] # "mkdir" /\ ~dirs[n].exists /\ dirs'[n].exists)
                   => flk[<<node[p], n>>] = p
       /\ \A n \in Names :
             dirs'[n].exists => \E q \in Procs : flk'[<<node[q], n>>] = q]_vars

\* release_locks has released every later sub-lock and now reaches the first
C14_Witness ==
    /\ ch.pc = "release_locks" /\ ch.j = 1
    /\ sub[1].held
    /\ \A k \in Subs : k > 1 => ~sub[k].held /\ sub[k].releases = 1

\* C15: after an acquire_nonblocking attempt of a lock's acquire(blocking,
\* timeout) found the lock busy: with timeout = 0 or blocking false the call is
\* over and it was the only attempt; with blocking and timeout > 0 the call is
\* over once more than timeout has passed and otherwise sleeps and retries;
\* with blocking and timeout < 0 it retries; a call that is over without the
\* lock returns false.
C15_AcquireDispatch ==
    [][\A p \in Procs :
          LET c == call[p]
              busy == \/ pc[p] = "mkdir" /\ dirs[c.name].exists
                      \/ pc[p] = "flock" /\ flk[<<node[p], c.name>>] # NoProc
              retry == pc'[p] = (IF pc[p] = "mkdir" THEN "hint" ELSE "flock")
              over == pc'[p] \in {"idle", "rollback", "gc_loop"}
          IN (busy /\ Steps(p)) =>
                /\ (c.rem = 0 \/ ~c.blocking) => over /\ c.el = c.start
                /\ (c.blocking /\ c.rem > 0) =>
                      IF c.el - c.start > c.rem
                      THEN over
                      ELSE retry /\ call'[p].el = c.el + 1
                /\ (c.blocking /\ c.rem < 0) => retry /\ call'[p] = c
                /\ (pc'[p] = "idle" /\ c.op = "acquire") => ret'[p] = "false"]_vars

\* acquire_timeout of a directory lock has polled for more than its timeout
\* and the entry is still there
C15_Witness ==
    \E p \in Procs :
        /\ kind[p] = "pmx" /\ pc[p] = "mkdir" /\ DirExists(call[p].name)
        /\ call[p].blocking /\ call[p].timeout = MaxTimeout
        /\ call[p].el = MaxTimeout + 1

\* C16: a ClusterLock.acquire whose advisory-lock stage finds the lock busy
\* either retries that stage or ends, and no step of the call, from its entry
\* on, changes the shared store.
C16_LocalLoserLeavesStore ==
    [][\A p \in Procs :
          /\ (kind[p] = "cluster" /\ pc[p] # "flock" /\ pc'[p] = "flock") => dirs' = dirs
          /\ (/\ kind[p] = "cluster" /\ pc[p] = "flock"
              /\ flk[<<node[p], call[p].name>>] # NoProc
              /\ Steps(p))
             => /\ dirs' = dirs
                /\ pc'[p] \in {"flock", "idle", "gc_loop"}]_vars

\* a ClusterLock.acquire has returned false at the advisory-lock stage while
\* the entry of the name exists with its heartbeat stamp
C16_Witness ==
    \E p \in Procs :
        /\ kind[p] = "cluster" /\ pc[p] = "idle" /\ ret[p] = "false" /\ stray[p]
        /\ DirExists("alpha") /\ dirs["alpha"].mtime = Stamp

\* C17: when the entry exists and the caller may write it, PMXLockShort.acquire
\* stamps it and returns true at once, with no hint and no directory creation;
\* when the heartbeat fails it goes on to the hint of the full acquire with
\* the call unchanged; the polling loop never goes back to the heartbeat, and
\* a lock class with the shortcut reaches the hint only through the heartbeat.
C17_RecoverableFastPath ==
    [][\A p \in Procs :
          LET n == call[p].name
          IN /\ (pc[p] = "update" /\ pc'[p] # "update")
                => IF dirs[n].exists /\ dirs[n].owner = principal[p]
                   THEN /\ dirs' = [dirs EXCEPT ![n].mtime = Stamp]
                        /\ pc'[p] \notin {"hint", "mkdir"}
                        /\ call[p].op = "acquire"
                              => pc'[p] = "idle" /\ ret'[p] = "true" /\ has'[p]
                   ELSE /\ pc'[p] = "hint"
                        /\ dirs' = dirs
                        /\ call'[p] = call[p]
             /\ (pc[p] \in {"hint", "mkdir"} /\ Steps(p)) => pc'[p] # "update"
             /\ (HasShortcut(kind[p]) /\ pc'[p] = "hint" /\ pc[p] \notin {"hint", "mkdir"})
                => pc[p] = "update"]_vars

\* both callers of a PMXLockShort have an acquire that returned true: the
\* second one came in by the heartbeat on the entry the first one created
C17_Witness ==
    /\ \A p \in Procs : kind[p] = "short" /\ has[p] /\ ret[p] = "true"
    /\ DirExists("alpha") /\ dirs["alpha"].mtime = Stamp

C19_BudgetNeverUnbounded ==
    [][/\ ch'.pc = "attempt"
          => IF ch'.timeout > 0
             THEN /\ ch'.rem \in 0 .. ch'.timeout
                  /\ ch'.start >= ch'.timeout => ch'.rem = 0
                  /\ ch'.rem = 0 => ch'.el = ch'.start
                  /\ ~(ch'.blocking /\ ch'.rem < 0)
             ELSE ch'.rem = ch'.timeout
       /\ (ch.pc = "attempt" /\ ch'.pc = "attempt" /\ ch.timeout > 0)
          => ch'.rem <= ch.rem
       /\ (ch.pc = "attempt" /\ ch.timeout > 0 /\ ch.rem = 0 /\ ch' # ch)
          => ch'.pc # "attempt" \/ ch'.i = ch.i + 1]_vars

\* the budget ran out while the first sub-lock was polled: the next one gets 0
C19_Witness ==
    /\ ch.pc = "attempt" /\ ch.i >= 2
    /\ ch.blocking /\ ch.timeout > 0
    /\ ch.start > ch.timeout
    /\ ch.rem = 0

\* C20: during a failed chain acquire release is invoked at most once on each
\* sub-lock the call had acquired and never on one it had not acquired.
C20_RollbackReleasesOnce ==
    ch.pass \in {1, 2} =>
        \A i \in Subs : /\ sub[i].releases <= 1
                        /\ i \notin Acquired => sub[i].releases = 0
====
